---- MODULE Spec2Model ----
(***************************************************************************)
(* Model of the aggregation engine of src/pipeline.py: TrackStats.ingest   *)
(* and StreamProcessor (process, process_batch, throughput, top_tracks,    *)
(* summary).                                                               *)
(*                                                                         *)
(* Representation choices                                                  *)
(*   - time.time() readings are integers (seconds); the wall clock is a    *)
(*     variable the environment may move forwards or backwards.            *)
(*   - a Python dict is a sequence of [k, v] entries in insertion order,   *)
(*     which is the order Python iterates it in.                           *)
(*   - completion_pct (a float rounded to one decimal) is kept in tenths   *)
(*     of a percent: 667 stands for 66.7.                                  *)
(*   - the floats avg_listen_s and throughput() are kept as the fraction   *)
(*     [num, den] the code divides.                                        *)
(*   - throughput_eps (rounded to two decimals) is kept in hundredths.     *)
(***************************************************************************)
EXTENDS Integers, Sequences, FiniteSets

VARIABLES
    stats,              \* StreamProcessor.stats: track_id -> TrackStats
    _window,            \* StreamProcessor._window: deque of clock readings
    _total_processed,   \* StreamProcessor._total_processed
    clock,              \* what time.time() returns now
    log,                \* history: the events handed to process, each with its clock reading
    op,                 \* the operation called last
    ret,                \* what it returned
    threads             \* producer threads inside process: where each is, and its locals

vars == <<stats, _window, _total_processed, clock, log, op, ret, threads>>

(***************************************************************************)
(* Bounds of the model.                                                    *)
(***************************************************************************)
MaxEvents == 3          \* events handed to process in a run of Spec
MaxStatsEvents == 3     \* ... in a run of SpecStats
MaxTieEvents == 4       \* ... in a run of SpecTie
MaxBoardEvents == 3     \* ... in a run of SpecBoard
MaxBatch == 2           \* longest list handed to process_batch
MaxThreadCalls == 3     \* calls of process by the producer threads in a run of SpecThreads
MaxOrderEvents == 3     \* events processed in a run of SpecOrder

(***************************************************************************)
(* 1. CATALOG and the constants of the program.                            *)
(***************************************************************************)
CATALOG ==
    << [track_id |-> "jw-001", title |-> "In My Room"],
       [track_id |-> "jw-002", title |-> "Last Summer"],
       [track_id |-> "jw-003", title |-> "Kill You Off"],
       [track_id |-> "jw-004", title |-> "Pearl"],
       [track_id |-> "jw-005", title |-> "Loser"],
       [track_id |-> "jw-006", title |-> "Fingernails"],
       [track_id |-> "jw-007", title |-> "Limewire"],
       [track_id |-> "jw-008", title |-> "Jennifer's Body"],
       [track_id |-> "jw-009", title |-> "Sunshine State"],
       [track_id |-> "jw-010", title |-> "You've Lost A Lot of Blood"] >>

WINDOW_SIZE == 60

TrackIds == {CATALOG[i].track_id : i \in 1..Len(CATALOG)}

(***************************************************************************)
(* Helpers: integer arithmetic and Python's dict, round, sorted, slice.    *)
(***************************************************************************)
Min(a, b) == IF a < b THEN a ELSE b
Max(a, b) == IF a > b THEN a ELSE b

\* round(num / den): the integer nearest to num/den, a tie
\* going to the even neighbour (Python's round).  den > 0, num >= 0.
RoundTruncates(num, den) == num \div den
RoundHalfEven(num, den) ==
    LET q == num \div den
        r == num % den
    IN  IF 2 * r < den THEN q
        ELSE IF 2 * r > den THEN q + 1
        ELSE IF q % 2 = 0 THEN q ELSE q + 1

DictHas(d, k) == \E i \in 1..Len(d) : d[i].k = k

\* d.get(k, dflt)
DictGetAlwaysDefault(d, k, dflt) == dflt
DictGet(d, k, dflt) ==
    IF DictHas(d, k) THEN d[CHOOSE i \in 1..Len(d) : d[i].k = k].v ELSE dflt

\* d[k] = v: an existing key keeps its place, a new key goes last
DictSet(d, k, v) ==
    IF DictHas(d, k)
    THEN [i \in 1..Len(d) |-> IF d[i].k = k THEN [k |-> k, v |-> v] ELSE d[i]]
    ELSE Append(d, [k |-> k, v |-> v])

\* max(d, key=d.get): the first key, in iteration order, whose value is maximal
MaxKeyLast(d) ==
    LET i == CHOOSE i \in 1..Len(d) :
                 /\ \A j \in 1..Len(d) : d[j].v <= d[i].v
                 /\ \A j \in (i+1)..Len(d) : d[j].v < d[i].v
    IN  d[i].k
MaxKey(d) ==
    LET i == CHOOSE i \in 1..Len(d) :
                 /\ \A j \in 1..Len(d) : d[j].v <= d[i].v
                 /\ \A j \in 1..(i-1) : d[j].v < d[i].v
    IN  d[i].k

(***************************************************************************)
(* 2. DATA MODELS                                                          *)
(***************************************************************************)
StreamEvent(tid, uid, platform, region, listened, completed) ==
    [event_id |-> "e", track_id |-> tid, user_id |-> uid, platform |-> platform,
     region |-> region, device |-> "iPhone", timestamp |-> 0,
     listened_s |-> listened, completed |-> completed]

\* TrackStats(track_id, title): the dataclass's defaults
TrackStats(tid, title) ==
    [track_id |-> tid, title |-> title,
     total_streams |-> 0, unique_users |-> 0, completion_pct |-> 0,
     avg_listen_s |-> [num |-> 0, den |-> 1],
     top_platform |-> "", top_region |-> "",
     _user_set |-> {}, _listen_total |-> 0, _completions |-> 0,
     _platform_counts |-> <<>>, _region_counts |-> <<>>]

\* round(completions / total_streams * 100, 1), in tenths of a percent
completion_pctTruncates(completions, total) == RoundTruncates(1000 * completions, total)
completion_pct(completions, total) == RoundHalfEven(1000 * completions, total)

unique_usersCountsEvents(user_set, total) == total
unique_users(user_set, total) == Cardinality(user_set)

\* self._listen_total / self.total_streams, kept as the fraction divided
avg_listen_sFloors(listen_total, total) == [num |-> listen_total \div total, den |-> 1]
avg_listen_s(listen_total, total) == [num |-> listen_total, den |-> total]

\* TrackStats.ingest(self, event): the TrackStats after the call
ingestKeepsLastListen(self, event) ==
    LET total    == self.total_streams + 1
        users    == self._user_set \cup {event.user_id}
        listen   == event.listened_s
        compl    == IF event.completed THEN self._completions + 1
                                       ELSE self._completions
        plats    == DictSet(self._platform_counts, event.platform,
                            DictGet(self._platform_counts, event.platform, 0) + 1)
        regs     == DictSet(self._region_counts, event.region,
                            DictGet(self._region_counts, event.region, 0) + 1)
    IN  [self EXCEPT
            !.total_streams    = total,
            !._user_set        = users,
            !.unique_users     = unique_users(users, total),
            !._listen_total    = listen,
            !.avg_listen_s     = avg_listen_s(listen, total),
            !._completions     = compl,
            !.completion_pct   = completion_pct(compl, total),
            !._platform_counts = plats,
            !._region_counts   = regs,
            !.top_platform     = MaxKey(plats),
            !.top_region       = MaxKey(regs)]
ingest(self, event) ==
    LET total    == self.total_streams + 1
        users    == self._user_set \cup {event.user_id}
        listen   == self._listen_total + event.listened_s
        compl    == IF event.completed THEN self._completions + 1
                                       ELSE self._completions
        plats    == DictSet(self._platform_counts, event.platform,
                            DictGet(self._platform_counts, event.platform, 0) + 1)
        regs     == DictSet(self._region_counts, event.region,
                            DictGet(self._region_counts, event.region, 0) + 1)
    IN  [self EXCEPT
            !.total_streams    = total,
            !._user_set        = users,
            !.unique_users     = unique_users(users, total),
            !._listen_total    = listen,
            !.avg_listen_s     = avg_listen_s(listen, total),
            !._completions     = compl,
            !.completion_pct   = completion_pct(compl, total),
            !._platform_counts = plats,
            !._region_counts   = regs,
            !.top_platform     = MaxKey(plats),
            !.top_region       = MaxKey(regs)]

(***************************************************************************)
(* 4. STREAM PROCESSOR                                                     *)
(***************************************************************************)
\* the engine's mutable fields as one value
Engine == [stats |-> stats, _window |-> _window, _total_processed |-> _total_processed]

\* cutoff = now - self.WINDOW_SIZE
cutoffSignFlipped(now) == now + WINDOW_SIZE
cutoffIsNow(now) == now
cutoff(now) == now - WINDOW_SIZE

\* while self._window and self._window[0] < cutoff: self._window.popleft()
RECURSIVE evict(_, _)
evict(w, c) ==
    IF w # <<>> /\ Head(w) < c THEN evict(Tail(w), c) ELSE w

\* the part of process after the guard (lines 163-171)
processKnownSkipsCount(eng, event, now) ==
    [stats            |-> [eng.stats EXCEPT ![event.track_id] = ingest(@, event)],
     _total_processed |-> eng._total_processed,
     _window          |-> evict(Append(eng._window, now), cutoff(now))]
processKnownDedups(eng, event, now) ==
    IF event.user_id \in eng.stats[event.track_id]._user_set THEN eng
    ELSE [stats            |-> [eng.stats EXCEPT ![event.track_id] = ingest(@, event)],
          _total_processed |-> eng._total_processed + 1,
          _window          |-> evict(Append(eng._window, now), cutoff(now))]
processKnown(eng, event, now) ==
    [stats            |-> [eng.stats EXCEPT ![event.track_id] = ingest(@, event)],
     _total_processed |-> eng._total_processed + 1,
     _window          |-> evict(Append(eng._window, now), cutoff(now))]

\* StreamProcessor.process(event) with time.time() = now: the engine after the call
processCountsUnknown(eng, event, now) ==
    IF event.track_id \notin DOMAIN eng.stats
    THEN [eng EXCEPT !._total_processed = @ + 1,
                     !._window = evict(Append(@, now), cutoff(now))]
    ELSE processKnown(eng, event, now)
process(eng, event, now) ==
    IF event.track_id \notin DOMAIN eng.stats THEN eng
    ELSE processKnown(eng, event, now)

\* StreamProcessor.process_batch(events), the i-th call of process reading nows[i]
RECURSIVE process_batchStopsAtUnknown(_, _, _)
process_batchStopsAtUnknown(eng, events, nows) ==
    IF events = <<>> \/ Head(events).track_id \notin DOMAIN eng.stats THEN eng
    ELSE process_batchStopsAtUnknown(process(eng, Head(events), Head(nows)),
                                     Tail(events), Tail(nows))
RECURSIVE process_batch(_, _, _)
process_batch(eng, events, nows) ==
    IF events = <<>> THEN eng
    ELSE process_batch(process(eng, Head(events), Head(nows)), Tail(events), Tail(nows))

\* StreamProcessor.throughput()
throughput(eng) == [num |-> Len(eng._window), den |-> WINDOW_SIZE]

\* self.stats.values(): the TrackStats in the order the dict was filled (CATALOG's)
values(eng) == [i \in 1..Len(CATALOG) |-> eng.stats[CATALOG[i].track_id]]

\* sorted(xs, key=total_streams, reverse=True): stable, equal keys keep their order
RECURSIVE insertTiesFirst(_, _)
insertTiesFirst(sortedSeq, x) ==
    IF sortedSeq = <<>> THEN <<x>>
    ELSE IF Head(sortedSeq).total_streams > x.total_streams
         THEN <<Head(sortedSeq)>> \o insertTiesFirst(Tail(sortedSeq), x)
         ELSE <<x>> \o sortedSeq
RECURSIVE insert(_, _)
insert(sortedSeq, x) ==
    IF sortedSeq = <<>> THEN <<x>>
    ELSE IF Head(sortedSeq).total_streams >= x.total_streams
         THEN <<Head(sortedSeq)>> \o insert(Tail(sortedSeq), x)
         ELSE <<x>> \o sortedSeq

RECURSIVE sorted(_)
sorted(xs) ==
    IF xs = <<>> THEN <<>>
    ELSE insert(sorted(SubSeq(xs, 1, Len(xs) - 1)), xs[Len(xs)])

\* xs[:n]
sliceOneMore(xs, n) == SubSeq(xs, 1, Min(n + 1, Len(xs)))
slice(xs, n) ==
    IF n >= 0 THEN SubSeq(xs, 1, Min(n, Len(xs)))
    ELSE SubSeq(xs, 1, Max(Len(xs) + n, 0))

\* StreamProcessor.top_tracks(n)
top_tracks(eng, n) == slice(sorted(values(eng)), n)

\* StreamProcessor.summary()
summaryCountsIdleTracks(eng) ==
    LET top == top_tracks(eng, 3)
    IN  [total_events_processed |-> eng._total_processed,
         unique_tracks_streamed |->
             Cardinality({t \in DOMAIN eng.stats : eng.stats[t].total_streams >= 0}),
         throughput_eps |-> RoundHalfEven(100 * throughput(eng).num, throughput(eng).den),
         top_3_tracks |->
             [i \in 1..Len(top) |-> [title |-> top[i].title, streams |-> top[i].total_streams]]]
summary(eng) ==
    LET top == top_tracks(eng, 3)
    IN  [total_events_processed |-> eng._total_processed,
         unique_tracks_streamed |->
             Cardinality({t \in DOMAIN eng.stats : eng.stats[t].total_streams > 0}),
         throughput_eps |-> RoundHalfEven(100 * throughput(eng).num, throughput(eng).den),
         top_3_tracks |->
             [i \in 1..Len(top) |-> [title |-> top[i].title, streams |-> top[i].total_streams]]]

(***************************************************************************)
(* The state machine.                                                      *)
(***************************************************************************)
\* producer threads that may call process on the one StreamProcessor
Threads == {1, 2}

\* a thread outside process
Idle == [pc |-> "idle", event |-> "None", tmp |-> 0]

\* StreamProcessor.__init__
Init ==
    /\ stats = [t \in TrackIds |->
                   TrackStats(t, CATALOG[CHOOSE i \in 1..Len(CATALOG) :
                                             CATALOG[i].track_id = t].title)]
    /\ _window = <<>>
    /\ _total_processed = 0
    /\ clock = 0
    /\ log = <<>>
    /\ op = "init"
    /\ ret = "None"
    /\ threads = [t \in Threads |-> Idle]

SetEngine(eng) ==
    /\ stats' = eng.stats
    /\ _window' = eng._window
    /\ _total_processed' = eng._total_processed

\* the wall clock moves (forwards, or backwards when it is adjusted)
Tick(t) ==
    /\ t # clock
    /\ clock' = t
    /\ op' = "tick"
    /\ ret' = "None"
    /\ UNCHANGED <<stats, _window, _total_processed, log, threads>>

\* a call of process(event)
Process(event) ==
    /\ SetEngine(process(Engine, event, clock))
    /\ log' = Append(log, [event |-> event, now |-> clock])
    /\ op' = "process"
    /\ ret' = "None"
    /\ UNCHANGED <<clock, threads>>

\* a call of process_batch(events); time.time() returns nows[i] in the i-th process
ProcessBatch(events, nows) ==
    /\ Len(events) = Len(nows)
    /\ SetEngine(process_batch(Engine, events, nows))
    /\ log' = log \o [i \in 1..Len(events) |-> [event |-> events[i], now |-> nows[i]]]
    /\ clock' = IF nows = <<>> THEN clock ELSE nows[Len(nows)]
    /\ op' = "process_batch"
    /\ ret' = "None"
    /\ UNCHANGED threads

\* a call of throughput()
ThroughputEvicts ==
    /\ op' = "throughput"
    /\ ret' = throughput(Engine)
    /\ _window' = evict(_window, cutoff(clock))
    /\ UNCHANGED <<stats, _total_processed, clock, log, threads>>
Throughput ==
    /\ op' = "throughput"
    /\ ret' = throughput(Engine)
    /\ UNCHANGED <<stats, _window, _total_processed, clock, log, threads>>

\* a call of top_tracks(n)
TopTracks(n) ==
    /\ op' = "top_tracks"
    /\ ret' = top_tracks(Engine, n)
    /\ UNCHANGED <<stats, _window, _total_processed, clock, log, threads>>

\* a call of summary()
Summary ==
    /\ op' = "summary"
    /\ ret' = summary(Engine)
    /\ UNCHANGED <<stats, _window, _total_processed, clock, log, threads>>

\* the lists of length 0..n over S
SeqsUpTo(S, n) == UNION {[1..k -> S] : k \in 0..n}

\* arguments the reads are called with (5 is the default of top_tracks)
TopNArgs == {-1, 0, 1, 5}

(***************************************************************************)
(* Spec: the engine under a wall clock that crosses the window horizon.    *)
(* Events differ in being addressed to a catalog track or not.             *)
(***************************************************************************)
ClockReadings == {0, 1, WINDOW_SIZE + 1, 2 * WINDOW_SIZE + 1}

Events ==
    { StreamEvent("jw-001", "user_00001", "Spotify", "US-West", 100, FALSE),
      StreamEvent("jw-999", "user_00001", "Spotify", "US-West", 100, FALSE) }

Next ==
    \/ \E t \in ClockReadings : Tick(t)
    \/ \E e \in Events : Len(log) < MaxEvents /\ Process(e)
    \/ \E es \in SeqsUpTo(Events, MaxBatch) : \E ns \in SeqsUpTo(ClockReadings, MaxBatch) :
           Len(log) + Len(es) <= MaxEvents /\ ProcessBatch(es, ns)
    \/ Throughput
    \/ \E n \in TopNArgs : TopTracks(n)
    \/ Summary

Spec == Init /\ [][Next]_vars

(***************************************************************************)
(* SpecStats: one track ingesting events that differ in user, platform,    *)
(* region, seconds listened and completion.                                *)
(***************************************************************************)
StatsClockReadings == {0, WINDOW_SIZE + 1}

StatsEvents ==
    { StreamEvent("jw-001", "user_00001", "Spotify", "US-West", 100, FALSE),
      StreamEvent("jw-001", "user_00002", "Tidal",   "APAC",    150, TRUE),
      StreamEvent("jw-001", "user_00001", "Tidal",   "US-West", 183, TRUE) }

NextStats ==
    \/ \E t \in StatsClockReadings : Tick(t)
    \/ \E e \in StatsEvents : Len(log) < MaxStatsEvents /\ Process(e)
    \/ \E es \in SeqsUpTo(StatsEvents, MaxBatch) :
       \E ns \in SeqsUpTo(StatsClockReadings, MaxBatch) :
           Len(log) + Len(es) <= MaxStatsEvents /\ ProcessBatch(es, ns)
    \/ Throughput
    \/ \E n \in TopNArgs : TopTracks(n)
    \/ Summary

SpecStats == Init /\ [][NextStats]_vars

(***************************************************************************)
(* SpecTie: one track ingesting events of two platforms and two regions,   *)
(* long enough for one value to lead and the other to draw level.          *)
(***************************************************************************)
TieEvents ==
    { StreamEvent("jw-001", "user_00001", "Spotify", "US-West", 100, FALSE),
      StreamEvent("jw-001", "user_00001", "Tidal",   "APAC",    100, FALSE) }

NextTie ==
    \/ \E t \in StatsClockReadings : Tick(t)
    \/ \E e \in TieEvents : Len(log) < MaxTieEvents /\ Process(e)
    \/ \E es \in SeqsUpTo(TieEvents, MaxBatch) :
       \E ns \in SeqsUpTo(StatsClockReadings, MaxBatch) :
           Len(log) + Len(es) <= MaxTieEvents /\ ProcessBatch(es, ns)
    \/ Throughput
    \/ \E n \in TopNArgs : TopTracks(n)
    \/ Summary

SpecTie == Init /\ [][NextTie]_vars

(***************************************************************************)
(* SpecBoard: events spread over several catalog tracks and an unknown     *)
(* one, and top_tracks called with every kind of n.                        *)
(***************************************************************************)
BoardEvents ==
    { StreamEvent("jw-002", "user_00001", "Spotify", "US-West", 100, FALSE),
      StreamEvent("jw-005", "user_00001", "Spotify", "US-West", 100, FALSE),
      StreamEvent("jw-999", "user_00001", "Spotify", "US-West", 100, FALSE) }

BoardNArgs == {-1, 0, 1, 2, 5, Len(CATALOG) + 1}

NextBoard ==
    \/ \E t \in StatsClockReadings : Tick(t)
    \/ \E e \in BoardEvents : Len(log) < MaxBoardEvents /\ Process(e)
    \/ \E es \in SeqsUpTo(BoardEvents, MaxBatch) :
       \E ns \in SeqsUpTo(StatsClockReadings, MaxBatch) :
           Len(log) + Len(es) <= MaxBoardEvents /\ ProcessBatch(es, ns)
    \/ Throughput
    \/ \E n \in BoardNArgs : TopTracks(n)
    \/ Summary

SpecBoard == Init /\ [][NextBoard]_vars

(***************************************************************************)
(* SpecThreads: two producer threads call process on the same              *)
(* StreamProcessor.  The code takes no lock, so a thread can be preempted  *)
(* between statements, and between the read and the write of an            *)
(* augmented assignment (x += 1 loads x, adds, stores x).  Each thread     *)
(* step below is one such piece of process; lines 80-90 of ingest are one  *)
(* step.  The clock stands still, so nothing is evicted.                   *)
(***************************************************************************)
InProcess == {t \in Threads : threads[t].pc # "idle"}

\* thread t calls process(event)
ThreadCall(t, event) ==
    /\ threads[t].pc = "idle"
    /\ Len(log) + Cardinality(InProcess) < MaxThreadCalls
    /\ threads' = [threads EXCEPT ![t] = [pc |-> "guard", event |-> event, tmp |-> 0]]
    /\ UNCHANGED <<stats, _window, _total_processed, clock, log, op, ret>>

\* line 160-161: if event.track_id not in self.stats: return
ThreadGuard(t) ==
    /\ threads[t].pc = "guard"
    /\ IF threads[t].event.track_id \notin DOMAIN stats
       THEN /\ threads' = [threads EXCEPT ![t] = Idle]
            /\ log' = Append(log, [event |-> threads[t].event, now |-> clock])
            /\ op' = "process"
            /\ ret' = "None"
       ELSE /\ threads' = [threads EXCEPT ![t].pc = "load_streams"]
            /\ UNCHANGED <<log, op, ret>>
    /\ UNCHANGED <<stats, _window, _total_processed, clock>>

\* line 79, the read of self.total_streams += 1
ThreadLoadStreams(t) ==
    /\ threads[t].pc = "load_streams"
    /\ threads' = [threads EXCEPT ![t].pc = "ingest",
                                  ![t].tmp = stats[threads[t].event.track_id].total_streams]
    /\ UNCHANGED <<stats, _window, _total_processed, clock, log, op, ret>>

\* line 79, the write of self.total_streams += 1, and lines 80-90
ThreadIngest(t) ==
    /\ threads[t].pc = "ingest"
    /\ stats' = [stats EXCEPT ![threads[t].event.track_id] =
                    ingest([@ EXCEPT !.total_streams = threads[t].tmp], threads[t].event)]
    /\ threads' = [threads EXCEPT ![t].pc = "load_total"]
    /\ UNCHANGED <<_window, _total_processed, clock, log, op, ret>>

\* line 164, the read of self._total_processed += 1
ThreadLoadTotal(t) ==
    /\ threads[t].pc = "load_total"
    /\ threads' = [threads EXCEPT ![t].pc = "store_total", ![t].tmp = _total_processed]
    /\ UNCHANGED <<stats, _window, _total_processed, clock, log, op, ret>>

\* line 164, the write of self._total_processed += 1
ThreadStoreTotal(t) ==
    /\ threads[t].pc = "store_total"
    /\ _total_processed' = threads[t].tmp + 1
    /\ threads' = [threads EXCEPT ![t].pc = "window"]
    /\ UNCHANGED <<stats, _window, clock, log, op, ret>>

\* lines 167-171: now = time.time(), append, evict; process returns
ThreadWindow(t) ==
    /\ threads[t].pc = "window"
    /\ _window' = evict(Append(_window, clock), cutoff(clock))
    /\ log' = Append(log, [event |-> threads[t].event, now |-> clock])
    /\ threads' = [threads EXCEPT ![t] = Idle]
    /\ op' = "process"
    /\ ret' = "None"
    /\ UNCHANGED <<stats, _total_processed, clock>>

NextThreads ==
    \/ \E t \in Threads : \E e \in Events : ThreadCall(t, e)
    \/ \E t \in Threads : ThreadGuard(t)
    \/ \E t \in Threads : ThreadLoadStreams(t)
    \/ \E t \in Threads : ThreadIngest(t)
    \/ \E t \in Threads : ThreadLoadTotal(t)
    \/ \E t \in Threads : ThreadStoreTotal(t)
    \/ \E t \in Threads : ThreadWindow(t)
    \/ Summary

SpecThreads == Init /\ [][NextThreads]_vars

(***************************************************************************)
(* SpecOrder: a fresh engine fed events of two tracks that differ in user, *)
(* platform, region, seconds listened and completion, in every order.      *)
(***************************************************************************)
OrderEvents ==
    { StreamEvent("jw-001", "user_00001", "Spotify", "US-West", 100, FALSE),
      StreamEvent("jw-001", "user_00002", "Tidal",   "APAC",    150, TRUE),
      StreamEvent("jw-002", "user_00001", "Tidal",   "US-West", 183, TRUE) }

\* StreamProcessor(): the engine right after construction
FreshEngine ==
    [stats            |-> [t \in TrackIds |->
                              TrackStats(t, CATALOG[CHOOSE i \in 1..Len(CATALOG) :
                                                        CATALOG[i].track_id = t].title)],
     _window          |-> <<>>,
     _total_processed |-> 0]

NextOrder ==
    \/ \E e \in OrderEvents : Len(log) < MaxOrderEvents /\ Process(e)
    \/ \E es \in SeqsUpTo(OrderEvents, MaxBatch) :
           /\ Len(log) + Len(es) <= MaxOrderEvents
           /\ ProcessBatch(es, [i \in 1..Len(es) |-> clock])
    \/ \E n \in BoardNArgs : TopTracks(n)

SpecOrder == Init /\ [][NextOrder]_vars

(***************************************************************************)
(* What the history says, computed from log alone.                         *)
(***************************************************************************)
Last(q) == q[Len(q)]

\* the calls of process whose event was addressed to a catalog track
KnownLog == SelectSeq(log, LAMBDA r : r.event.track_id \in TrackIds)

\* the events ingested for track t, in order
HistOf(t) ==
    LET h == SelectSeq(log, LAMBDA r : r.event.track_id = t)
    IN  [i \in 1..Len(h) |-> h[i].event]

CountIn(q, v) == Cardinality({i \in 1..Len(q) : q[i] = v})
FirstIdx(q, v) == CHOOSE i \in 1..Len(q) : q[i] = v /\ \A j \in 1..(i-1) : q[j] # v
Range(q) == {q[i] : i \in 1..Len(q)}
MaxCount(q) == CHOOSE m \in 0..Len(q) :
                   /\ \A v \in Range(q) : CountIn(q, v) <= m
                   /\ (q # <<>> => \E v \in Range(q) : CountIn(q, v) = m)

RECURSIVE SumStreams(_)
SumStreams(T) ==
    IF T = {} THEN 0
    ELSE LET t == CHOOSE t \in T : TRUE
         IN  stats[t].total_streams + SumStreams(T \ {t})

CatIdx(tid) == CHOOSE i \in 1..Len(CATALOG) : CATALOG[i].track_id = tid

(***************************************************************************)
(* C1  Count conservation: in every reachable state the total_streams of   *)
(* all tracks sum to _total_processed, and both equal the number of        *)
(* submitted events whose track_id is in the catalog.                      *)
(***************************************************************************)
CountConservation ==
    /\ SumStreams(TrackIds) = _total_processed
    /\ _total_processed = Len(KnownLog)
    /\ \A t \in TrackIds : stats[t].total_streams = Len(HistOf(t))

\* two tracks were streamed and an unknown-track event was submitted too
CountConservationWitness ==
    /\ Len(log) = 3
    /\ _total_processed = 2
    /\ stats["jw-002"].total_streams = 1
    /\ stats["jw-005"].total_streams = 1

(***************************************************************************)
(* C2 (as stated)  Across every ingest the incumbent top_platform (resp.   *)
(* top_region) is replaced only by a value whose new count is strictly     *)
(* greater than the incumbent's count.                                     *)
(***************************************************************************)
ReplacedOnlyByGreater(old, new, q) ==
    (old # "" /\ new # old) => CountIn(q, new) > CountIn(q, old)

PlatformsOf(t) == LET h == HistOf(t) IN [i \in 1..Len(h) |-> h[i].platform]
RegionsOf(t) == LET h == HistOf(t) IN [i \in 1..Len(h) |-> h[i].region]

FirstSeenAmongMax(top, q) ==
    IF q = <<>> THEN top = ""
    ELSE LET m == MaxCount(q)
         IN  /\ top \in Range(q)
             /\ CountIn(q, top) = m
             /\ \A v \in Range(q) :
                    CountIn(q, v) = m => FirstIdx(q, top) <= FirstIdx(q, v)

ReplacedByGreaterOrEarlier(old, new, q) ==
    (old # "" /\ new # old) =>
        /\ CountIn(q, new) >= CountIn(q, old)
        /\ CountIn(q, new) = CountIn(q, old) => FirstIdx(q, new) < FirstIdx(q, old)

IdleWindowDrains ==
    (/\ op = "throughput"
     /\ KnownLog # <<>>
     /\ clock > Last(KnownLog).now + WINDOW_SIZE)
        => ret.num = 0

(***************************************************************************)
(* C4  Unknown-item no-op: process of an event whose track_id is not a key *)
(* of stats leaves stats, _total_processed and _window unchanged.          *)
(***************************************************************************)
UnknownItemNoOp ==
    [][(/\ op' = "process"
        /\ Len(log') = Len(log) + 1
        /\ Last(log').event.track_id \notin DOMAIN stats)
           => UNCHANGED <<stats, _total_processed, _window>>]_vars

\* an unknown-track event was processed while a stale timestamp sat in the window
UnknownItemNoOpWitness ==
    /\ op = "process"
    /\ Last(log).event.track_id \notin DOMAIN stats
    /\ _total_processed > 0
    /\ _window # <<>>
    /\ Head(_window) < cutoff(Last(log).now)

(***************************************************************************)
(* C5  Leaderboard stability: two tracks with equal total_streams appear   *)
(* in top_tracks(n) in CATALOG order, and when only one of them fits it is *)
(* the one declared earlier.                                               *)
(***************************************************************************)
TopArgs == (0 - 2)..(Len(CATALOG) + 1)

InBoard(r, tid) == \E i \in 1..Len(r) : r[i].track_id = tid

LeaderboardStability ==
    \A n \in TopArgs :
        LET r == top_tracks(Engine, n)
        IN  /\ \A i, j \in 1..Len(r) :
                   (i < j /\ r[i].total_streams = r[j].total_streams)
                       => CatIdx(r[i].track_id) < CatIdx(r[j].track_id)
            /\ \A j \in 1..Len(r) : \A a \in 1..(CatIdx(r[j].track_id) - 1) :
                   stats[CATALOG[a].track_id].total_streams = r[j].total_streams
                       => InBoard(r, CATALOG[a].track_id)

\* jw-005 was streamed before jw-002, both once: top_tracks(1) is jw-002
LeaderboardStabilityWitness ==
    /\ Len(log) >= 2
    /\ log[1].event.track_id = "jw-005"
    /\ log[2].event.track_id = "jw-002"
    /\ stats["jw-002"].total_streams = 1
    /\ stats["jw-005"].total_streams = 1
    /\ op = "top_tracks"
    /\ ret = <<stats["jw-002"]>>

(***************************************************************************)
(* C6  top_tracks(n), 0 <= n, returns min(n, number of tracks) distinct    *)
(* TrackStats in non-increasing order of total_streams, and no track left  *)
(* out has more streams than a track returned.                             *)
(***************************************************************************)
TopTracksSelectsTheTop ==
    \A n \in 0..(Len(CATALOG) + 1) :
        LET r == top_tracks(Engine, n)
        IN  /\ Len(r) = Min(n, Len(CATALOG))
            /\ \A i \in 1..Len(r) :
                   r[i].track_id \in TrackIds /\ r[i] = stats[r[i].track_id]
            /\ \A i, j \in 1..Len(r) : i # j => r[i].track_id # r[j].track_id
            /\ \A i, j \in 1..Len(r) :
                   i < j => r[i].total_streams >= r[j].total_streams
            /\ \A t \in TrackIds : \A i \in 1..Len(r) :
                   ~InBoard(r, t) => stats[t].total_streams <= r[i].total_streams

\* top_tracks(2) returned a later-declared track ahead of an earlier one
TopTracksWitness ==
    /\ op = "top_tracks"
    /\ Len(ret) = 2
    /\ ret[1].track_id = "jw-005" /\ ret[1].total_streams = 2
    /\ ret[2].track_id = "jw-002" /\ ret[2].total_streams = 1

(***************************************************************************)
(* C7  Read-side queries are pure: summary(), top_tracks(n) and            *)
(* throughput() leave stats, _total_processed and _window unchanged.       *)
(***************************************************************************)
ReadsArePure ==
    [][op' \in {"summary", "top_tracks", "throughput"}
           => UNCHANGED <<stats, _total_processed, _window>>]_vars

\* throughput() was called with a timestamp in the window older than the horizon
ReadsArePureWitness ==
    /\ op = "throughput"
    /\ _window # <<>>
    /\ Head(_window) < cutoff(clock)
    /\ ret.num = Len(_window)

(***************************************************************************)
(* C8  Distinct-actor bound: unique_users is the number of distinct        *)
(* user_id values among the events ingested for the track, the size of     *)
(* _user_set, and at most total_streams.                                   *)
(***************************************************************************)
UsersOf(t) == LET h == HistOf(t) IN {h[i].user_id : i \in 1..Len(h)}

DistinctActorBound ==
    \A t \in TrackIds :
        /\ stats[t].unique_users = Cardinality(UsersOf(t))
        /\ stats[t].unique_users = Cardinality(stats[t]._user_set)
        /\ stats[t].unique_users <= stats[t].total_streams

\* a user came back: three streams by two users
DistinctActorWitness ==
    /\ stats["jw-001"].total_streams = 3
    /\ stats["jw-001"].unique_users = 2

(***************************************************************************)
(* C9  Burst throughput: after K known-track events processed on a fresh   *)
(* engine with all clock readings inside one time unit, _window holds K    *)
(* timestamps and throughput() is K / WINDOW_SIZE.                         *)
(***************************************************************************)
BurstThroughput ==
    LET K == Len(KnownLog)
        nows == {KnownLog[i].now : i \in 1..K}
    IN  (K >= 1 /\ \A a, b \in nows : a - b <= 1)
            => /\ Len(_window) = K
               /\ throughput(Engine).num * WINDOW_SIZE = K * throughput(Engine).den

\* three known-track events, read at clock 0 and at clock 1
BurstThroughputWitness ==
    /\ Len(KnownLog) = 3
    /\ {KnownLog[i].now : i \in 1..3} = {0, 1}
    /\ Len(_window) = 3

(***************************************************************************)
(* C10  Completion rate: _completions counts the ingested events with      *)
(* completed = true, 0 <= _completions <= total_streams, completion_pct is *)
(* _completions / total_streams * 100 to the nearest tenth and lies in     *)
(* 0..100; completed = [false, true, true] gives 66.7.                     *)
(***************************************************************************)
Abs(x) == IF x < 0 THEN 0 - x ELSE x

CompletedOf(t) == LET h == HistOf(t) IN [i \in 1..Len(h) |-> h[i].completed]

CompletionRate ==
    \A t \in TrackIds :
        LET s == stats[t]
        IN  /\ s._completions = CountIn(CompletedOf(t), TRUE)
            /\ 0 <= s._completions /\ s._completions <= s.total_streams
            /\ 0 <= s.completion_pct /\ s.completion_pct <= 1000
            /\ s.total_streams > 0 =>
                   2 * Abs(s.completion_pct * s.total_streams - 1000 * s._completions)
                       <= s.total_streams
            /\ CompletedOf(t) = <<FALSE, TRUE, TRUE>> => s.completion_pct = 667

\* the scenario of the specification: completed = [false, true, true]
CompletionRateWitness ==
    /\ CompletedOf("jw-001") = <<FALSE, TRUE, TRUE>>
    /\ stats["jw-001"].completion_pct = 667

(***************************************************************************)
(* C11  Average correctness: _listen_total is the sum of listened_s over   *)
(* the events ingested for the track and avg_listen_s is _listen_total /   *)
(* total_streams, so avg_listen_s * total_streams = sum of listened_s.     *)
(***************************************************************************)
RECURSIVE SumSeq(_)
SumSeq(q) == IF q = <<>> THEN 0 ELSE q[1] + SumSeq(Tail(q))

ListenedOf(t) == LET h == HistOf(t) IN [i \in 1..Len(h) |-> h[i].listened_s]

AverageCorrectness ==
    \A t \in TrackIds :
        LET s == stats[t]
            total == SumSeq(ListenedOf(t))
        IN  /\ s._listen_total = total
            /\ s.total_streams > 0 =>
                   /\ s.avg_listen_s.den > 0
                   /\ s.avg_listen_s.num * s.total_streams = total * s.avg_listen_s.den
                   /\ s.avg_listen_s.num * s.total_streams
                          = s._listen_total * s.avg_listen_s.den

\* the scenario of the specification: 100 + 150 + 183 seconds over three streams
AverageCorrectnessWitness ==
    /\ ListenedOf("jw-001") = <<100, 150, 183>>
    /\ stats["jw-001"]._listen_total = 433
    /\ stats["jw-001"].avg_listen_s = [num |-> 433, den |-> 3]

(***************************************************************************)
(* C12  process_batch(events) is equivalent to sequential calls: it ends   *)
(* in the engine state that calling process(e) for each e in list order,   *)
(* with the same clock readings, ends in.                                  *)
(***************************************************************************)
\* process called once per entry, first entry first
RECURSIVE SequentialCalls(_, _)
SequentialCalls(eng, entries) ==
    IF entries = <<>> THEN eng
    ELSE process(SequentialCalls(eng, SubSeq(entries, 1, Len(entries) - 1)),
                 Last(entries).event, Last(entries).now)

BatchIsSequentialCalls ==
    [][op' = "process_batch"
           => Engine' = SequentialCalls(Engine, SubSeq(log', Len(log) + 1, Len(log')))]_vars

\* a batch of an unknown-track event and a known one, read at different clocks
BatchWitness ==
    /\ op = "process_batch"
    /\ Len(log) = 2
    /\ log[1].event.track_id = "jw-999" /\ log[1].now = 1
    /\ log[2].event.track_id = "jw-001" /\ log[2].now = 0
    /\ _total_processed = 1
    /\ _window = <<0>>

(***************************************************************************)
(* C13  summary() is a faithful projection: total_events_processed is      *)
(* _total_processed, unique_tracks_streamed is the number of tracks with   *)
(* total_streams > 0 (at most total_events_processed and at most the       *)
(* catalog size), and top_3_tracks lists the titles and total_streams of   *)
(* top_tracks(3) in order.                                                 *)
(***************************************************************************)
SummaryIsFaithful ==
    op = "summary" =>
        LET top == top_tracks(Engine, 3)
        IN  /\ ret.total_events_processed = _total_processed
            /\ ret.unique_tracks_streamed =
                   Cardinality({t \in TrackIds : stats[t].total_streams > 0})
            /\ ret.unique_tracks_streamed = Cardinality({t \in TrackIds : HistOf(t) # <<>>})
            /\ ret.unique_tracks_streamed <= ret.total_events_processed
            /\ ret.unique_tracks_streamed <= Len(CATALOG)
            /\ Len(ret.top_3_tracks) = Len(top)
            /\ \A i \in 1..Len(top) :
                   /\ ret.top_3_tracks[i].title = top[i].title
                   /\ ret.top_3_tracks[i].streams = top[i].total_streams

\* summary() after three streams over two tracks, the later-declared one leading
SummaryWitness ==
    /\ op = "summary"
    /\ ret.total_events_processed = 3
    /\ ret.unique_tracks_streamed = 2
    /\ ret.top_3_tracks[1] = [title |-> "Loser", streams |-> 2]
    /\ ret.top_3_tracks[2] = [title |-> "Last Summer", streams |-> 1]
    /\ ret.top_3_tracks[3] = [title |-> "In My Room", streams |-> 0]

(***************************************************************************)
(* C14  Eviction completeness of process: right after process returns for  *)
(* a known-track event handled at clock reading now, no timestamp anywhere *)
(* in _window is older than now - WINDOW_SIZE.                             *)
(***************************************************************************)
EvictionComplete ==
    (/\ op = "process"
     /\ log # <<>>
     /\ Last(log).event.track_id \in TrackIds)
        => \A i \in 1..Len(_window) : _window[i] >= Last(log).now - WINDOW_SIZE

(***************************************************************************)
(* C15  Window FIFO order: in every reachable state _window is             *)
(* non-decreasing from front to back.                                      *)
(***************************************************************************)
WindowNonDecreasing ==
    \A i, j \in 1..Len(_window) : i < j => _window[i] <= _window[j]

(***************************************************************************)
(* C16  Step effect of process on a known-track event for track X:         *)
(* stats[X].total_streams and _total_processed each grow by exactly 1,     *)
(* _listen_total by listened_s, unique_users by at most 1, every other     *)
(* TrackStats is unchanged, and no counter ever decreases.  Nothing is     *)
(* deduplicated: the same event processed twice counts twice.              *)
(***************************************************************************)
CountersNeverDecrease ==
    /\ _total_processed' >= _total_processed
    /\ \A t \in TrackIds :
           /\ stats'[t].total_streams >= stats[t].total_streams
           /\ stats'[t].unique_users >= stats[t].unique_users
           /\ stats'[t]._listen_total >= stats[t]._listen_total
           /\ stats'[t]._completions >= stats[t]._completions

KnownStepEffect ==
    LET e == Last(log').event
        X == e.track_id
    IN  /\ stats'[X].total_streams = stats[X].total_streams + 1
        /\ _total_processed' = _total_processed + 1
        /\ stats'[X]._listen_total = stats[X]._listen_total + e.listened_s
        /\ stats'[X].unique_users - stats[X].unique_users \in {0, 1}
        /\ \A t \in TrackIds \ {X} : stats'[t] = stats[t]

ProcessStepEffect ==
    [][/\ CountersNeverDecrease
       /\ (/\ op' = "process"
           /\ Len(log') = Len(log) + 1
           /\ Last(log').event.track_id \in TrackIds) => KnownStepEffect]_vars

\* the identical event was processed twice and counted twice
ProcessStepEffectWitness ==
    /\ op = "process"
    /\ Len(log) = 2
    /\ log[1].event = log[2].event
    /\ stats["jw-002"].total_streams = 2
    /\ stats["jw-002"]._listen_total = 200
    /\ stats["jw-002"].unique_users = 1
    /\ _total_processed = 2

(***************************************************************************)
(* C17  Single-writer serialization: concurrent calls of process take      *)
(* effect as if executed one after the other.  Once every call has         *)
(* returned, each known-track event is counted exactly once in             *)
(* total_streams, _total_processed and _window; and a concurrent read      *)
(* never sees an ingest applied without its _total_processed increment.    *)
(***************************************************************************)
NoUpdateLost ==
    InProcess = {} =>
        /\ SumStreams(TrackIds) = Len(KnownLog)
        /\ _total_processed = Len(KnownLog)
        /\ Len(_window) = Len(KnownLog)

\* what summary() returned is a state some serial execution passes through:
\* the streams it lists (at most three tracks are streamed here) add up to its total
ReadIsConsistent ==
    op = "summary" =>
        ret.total_events_processed =
            SumSeq([i \in 1..Len(ret.top_3_tracks) |-> ret.top_3_tracks[i].streams])

ProcessIsSerialized == NoUpdateLost /\ ReadIsConsistent

(***************************************************************************)
(* C18  Once a known-track event has been processed, _window is never      *)
(* empty again, whatever the clock does and however long the engine stays  *)
(* idle: the timestamp a process call appends survives that call's own     *)
(* eviction, and nothing but process removes entries.  Hence               *)
(* 1 <= len(_window) <= _total_processed and throughput() > 0 from the     *)
(* first processed event onward.                                           *)
(***************************************************************************)
WindowHoldsAnEntry ==
    KnownLog # <<>> =>
        /\ 1 <= Len(_window)
        /\ Len(_window) <= _total_processed
        /\ throughput(Engine).num > 0
        /\ op = "throughput" => ret.num > 0

\* the entry appended by the last known-track process call is the last of _window
AppendedSurvives ==
    (/\ op' \in {"process", "process_batch"}
     /\ Len(log') > Len(log)
     /\ Last(log').event.track_id \in TrackIds)
        => /\ _window' # <<>>
           /\ Last(_window') = Last(log').now

OnlyProcessRemoves ==
    (\/ Len(_window') < Len(_window)
     \/ \E i \in 1..Len(_window) : i <= Len(_window') /\ _window'[i] # _window[i])
        => op' \in {"process", "process_batch"}

SumValues(d) == SumSeq([i \in 1..Len(d) |-> d[i].v])

TopIsConsistent(top, d, total) ==
    /\ SumValues(d) = total
    /\ \A i, j \in 1..Len(d) : d[i].k = d[j].k => i = j
    /\ top = "" <=> total = 0
    /\ total # 0 =>
           \E i \in 1..Len(d) :
               /\ d[i].k = top
               /\ \A j \in 1..Len(d) : d[j].v <= d[i].v

TalliesConsistent ==
    \A t \in TrackIds :
        /\ TopIsConsistent(stats[t].top_platform, stats[t]._platform_counts,
                           stats[t].total_streams)
        /\ TopIsConsistent(stats[t].top_region, stats[t]._region_counts,
                           stats[t].total_streams)

\* three streams of one track over two platforms and two regions, next to a
\* track that was never streamed
TalliesWitness ==
    /\ stats["jw-001"].total_streams = 3
    /\ stats["jw-001"]._platform_counts =
           <<[k |-> "Spotify", v |-> 1], [k |-> "Tidal", v |-> 2]>>
    /\ stats["jw-001"].top_platform = "Tidal"
    /\ stats["jw-001"]._region_counts =
           <<[k |-> "US-West", v |-> 2], [k |-> "APAC", v |-> 1]>>
    /\ stats["jw-001"].top_region = "US-West"
    /\ stats["jw-002"].total_streams = 0
    /\ stats["jw-002"].top_platform = ""

(***************************************************************************)
(* C20  The numeric aggregates are order-independent: processing the same  *)
(* multiset of events on a fresh engine in any order leaves every track    *)
(* with the same total_streams, unique_users, _listen_total, _completions, *)
(* completion_pct, avg_listen_s and per-value platform and region counts,  *)
(* the same _total_processed, and top_tracks(n) returning the same tracks  *)
(* in the same order for every n.  top_platform and top_region are not     *)
(* part of it.                                                             *)
(***************************************************************************)
Perms(n) == {p \in [1..n -> 1..n] : \A i, j \in 1..n : p[i] = p[j] => i = j}

\* the fresh engine after processing the events of log in the order p
Replay(p) ==
    process_batch(FreshEngine,
                  [i \in 1..Len(log) |-> log[p[i]].event],
                  [i \in 1..Len(log) |-> log[p[i]].now])

Aggregates(s) ==
    [total_streams   |-> s.total_streams,
     unique_users    |-> s.unique_users,
     listen_total    |-> s._listen_total,
     completions     |-> s._completions,
     completion_pct  |-> s.completion_pct,
     avg_listen_s    |-> s.avg_listen_s,
     platform_counts |-> Range(s._platform_counts),
     region_counts   |-> Range(s._region_counts)]

Ranking(eng, n) ==
    LET r == top_tracks(eng, n) IN [i \in 1..Len(r) |-> r[i].track_id]

OrderIndependent ==
    \A p \in Perms(Len(log)) :
        LET eng == Replay(p)
        IN  /\ \A t \in TrackIds : Aggregates(eng.stats[t]) = Aggregates(stats[t])
            /\ eng._total_processed = _total_processed
            /\ \A n \in BoardNArgs : Ranking(eng, n) = Ranking(Engine, n)

\* three events over two tracks were processed, and another order of the same
\* events would have left a different top_platform with the same aggregates
OrderIndependentWitness ==
    /\ Len(log) = 3
    /\ stats["jw-001"].total_streams = 2
    /\ stats["jw-002"].total_streams = 1
    /\ \E p \in Perms(Len(log)) :
           Replay(p).stats["jw-001"].top_platform # stats["jw-001"].top_platform

====
